---- MODULE Spec2Model ----
(***************************************************************************)
(* Model of erdantic's pydantic adapter (src/erdantic/pydantic.py):        *)
(* PydanticField and PydanticModel, their constructors and accessors.      *)
(*                                                                         *)
(* Python str values are sequences of one-character strings, so that       *)
(* strip / rstrip / endswith / concatenation are computed as Python        *)
(* computes them.  A Python object is a record [kind, ref]; an exception   *)
(* is the exc field of the record an operation returns.                    *)
(***************************************************************************)
EXTENDS Integers, Sequences, FiniteSets, TLC

\* Bounds of the model: the adapter instances that exist at once (under
\* Spec, and under SpecAccess), and the length of a drawn field description.
MaxAdapters == 3
MaxInstances == 5
MaxDescrLen == 2

(***************************************************************************)
(* Python str operations used by the code.                                 *)
(***************************************************************************)
Whitespace == {" ", "\n", "\t"}

RECURSIVE rstrip(_)
rstrip(s) ==
    IF s = <<>> THEN s
    ELSE IF s[Len(s)] \in Whitespace THEN rstrip(SubSeq(s, 1, Len(s) - 1))
    ELSE s

RECURSIVE lstrip(_)
lstrip(s) ==
    IF s = <<>> THEN s
    ELSE IF s[1] \in Whitespace THEN lstrip(Tail(s))
    ELSE s

strip(s) == lstrip(rstrip(s))

endswith(s, suffix) ==
    /\ Len(s) >= Len(suffix)
    /\ SubSeq(s, Len(s) - Len(suffix) + 1, Len(s)) = suffix

(***************************************************************************)
(* Python objects.  kind is the object's type (for a class object:         *)
(* "class"), ref names the object.                                         *)
(***************************************************************************)
Obj(k, r) == [kind |-> k, ref |-> r]

BaseModel == Obj("class", "BaseModel")

\* __mro__ of every class of the universe.
Mro ==
    [c \in {"BaseModel", "M", "Child", "Lookalike", "FieldInfo"} |->
        CASE c = "BaseModel" -> <<"BaseModel", "object">>
          [] c = "M"         -> <<"M", "BaseModel", "object">>
          [] c = "Child"     -> <<"Child", "M", "BaseModel", "object">>
          [] c = "Lookalike" -> <<"Lookalike", "object">>
          [] c = "FieldInfo" -> <<"FieldInfo", "object">>]

\* Objects a caller may hand to PydanticModel(...): model classes, classes
\* that are no models, and values that are no classes.
ModelInputs ==
    { BaseModel, Obj("class", "M"), Obj("class", "Child"),
      Obj("class", "Lookalike"), Obj("M", "an M instance"),
      Obj("NoneType", "None") }

\* isinstance(obj, cls) for a class cls named by its string.
isinstance(obj, cls) ==
    IF cls = "type" THEN obj.kind = "class"
    ELSE \/ obj.kind = cls
         \/ /\ obj.kind \in DOMAIN Mro
            /\ \E i \in DOMAIN Mro[obj.kind] : Mro[obj.kind][i] = cls

\* issubclass(obj, cls): raises TypeError when obj is not a class.
issubclass(obj, cls) ==
    IF obj.kind # "class"
    THEN [exc |-> "TypeError", value |-> FALSE]
    ELSE [exc |-> "none",
          value |-> \E i \in DOMAIN Mro[obj.ref] : Mro[obj.ref][i] = cls.ref]

(***************************************************************************)
(* Type expressions (annotations) and the shared Type Classifier.          *)
(***************************************************************************)
Scalar(n) == [origin |-> "none", name |-> n, args |-> <<>>]
NoneT == Scalar(<<"N", "o", "n", "e">>)
IntT == Scalar(<<"i", "n", "t">>)
StrT == Scalar(<<"s", "t", "r">>)
ListOf(t) == [origin |-> "list", name |-> <<"L", "i", "s", "t">>, args |-> <<t>>]
OptionalOf(t) ==
    [origin |-> "Union", name |-> <<"O", "p", "t", "i", "o", "n", "a", "l">>,
     args |-> <<t, NoneT>>]

is_nullable(tp) ==
    /\ tp.origin = "Union"
    /\ \E i \in DOMAIN tp.args : tp.args[i] = NoneT

is_many(tp) ==
    LET inner == IF is_nullable(tp) THEN tp.args[1] ELSE tp
    IN  inner.origin = "list"

\* Field.type_name: the display string of the type expression.
RECURSIVE repr_type(_)
repr_type(tp) ==
    IF tp.origin = "none" THEN tp.name
    ELSE tp.name \o <<"[">> \o repr_type(tp.args[1]) \o <<"]">>

(***************************************************************************)
(* Values held by a FieldInfo: description (None or a str) and default     *)
(* (PydanticUndefined, Ellipsis, None, an int, a str).  text is str(value).*)
(***************************************************************************)
PyVal(k, t) == [kind |-> k, text |-> t]
NoneV == PyVal("NoneType", <<"N", "o", "n", "e">>)
PydanticUndefined == PyVal("PydanticUndefinedType", <<"U">>)
EllipsisV == PyVal("ellipsis", <<"E", "l", "l", "i", "p", "s", "i", "s">>)
StrV(s) == PyVal("str", s)
IntV(s) == PyVal("int", s)

Defaults ==
    { PydanticUndefined, EllipsisV, NoneV, IntV(<<"0">>), StrV(<<>>), StrV(<<"h", "i">>) }

DescrChars == {"a", ".", " "}

RECURSIVE StringsUpTo(_)
StringsUpTo(n) ==
    IF n = 0 THEN { <<>> }
    ELSE LET shorter == StringsUpTo(n - 1)
         IN  shorter \cup { Append(s, c) : s \in shorter, c \in DescrChars }

Descriptions == { NoneV } \cup { StrV(s) : s \in StringsUpTo(MaxDescrLen) }

FieldInfo(a, d, df) == [annotation |-> a, description |-> d, default |-> df]

\* The fields a drawn model may declare, in declaration order: it declares
\* a prefix of these names, so at most Len(DocFieldNames) fields.
\* FieldRef(i) names the i-th field's FieldInfo.
DocFieldNames == << <<"x">>, <<"y">> >>
DocFieldTypes == << IntT, OptionalOf(StrT) >>
FieldRef(i) == ToString(i)

\* The docstring of the model classes (inspect.getdoc).
ClassDoc == <<"A", " ", "m", "o", "d", "e", "l", ".">>

VARIABLES
    classes,      \* class name -> [doc, model_fields]: the model classes' metadata
    field_infos,  \* FieldInfo ref -> [annotation, description, default]
    heap,         \* the adapter instances that exist, by identity 1..Len(heap)
    result        \* the last call: [op, self, exc, value]

vars == <<classes, field_infos, heap, result>>

NoResult == [op |-> "none", self |-> 0, arg |-> 0, exc |-> "none", value |-> 0]

\* The fixed catalogue: M declares (b, a); Child inherits them; BaseModel
\* declares nothing.
CatalogueFieldInfos ==
    [r \in {"fa", "fb"} |->
        CASE r = "fa" -> FieldInfo(OptionalOf(ListOf(IntT)), NoneV, PydanticUndefined)
          [] r = "fb" -> FieldInfo(IntT, StrV(<<"b", ".">>), NoneV)]

CatalogueClasses ==
    [c \in {"BaseModel", "M", "Child"} |->
        IF c = "BaseModel"
        THEN [doc |-> ClassDoc, model_fields |-> <<>>]
        ELSE [doc |-> ClassDoc,
              model_fields |-> << <<<<"b">>, Obj("FieldInfo", "fb")>>,
                                  <<<<"a">>, Obj("FieldInfo", "fa")>> >>]]

Init ==
    /\ classes = CatalogueClasses
    /\ field_infos = CatalogueFieldInfos
    /\ heap = <<>>
    /\ result = NoResult

\* A model class M whose declared fields are drawn from the bounded sets.
InitDoc ==
    /\ \E n \in 0..Len(DocFieldNames) :
         \E fs \in [1..n -> Descriptions \X Defaults] :
            /\ field_infos =
                 [r \in {FieldRef(i) : i \in 1..n} |->
                    LET i == CHOOSE j \in 1..n : FieldRef(j) = r
                    IN  FieldInfo(DocFieldTypes[i], fs[i][1], fs[i][2])]
            /\ classes =
                 [c \in {"M"} |->
                    [doc |-> ClassDoc,
                     model_fields |->
                        [i \in 1..n |-> <<DocFieldNames[i], Obj("FieldInfo", FieldRef(i))>>]]]
    /\ heap = <<>>
    /\ result = NoResult

(***************************************************************************)
(* PydanticField                                                           *)
(***************************************************************************)
\* Field.__init__ of erdantic.base: stores the native object under `field`.
Field_init(self, field) == [cls |-> self.cls, _name |-> self._name, field |-> field]

\* PydanticField.__init__ without the isinstance check.
PydanticField_init_unchecked(name, field_info) ==
    [exc |-> "none",
     obj |-> Field_init([cls |-> "PydanticField", _name |-> name], field_info)]

\* PydanticField.__init__: the object built, and the exception raised if any.
PydanticField_init(name, field_info) ==
    LET self == [cls |-> "PydanticField", _name |-> name]
    IN  IF ~isinstance(field_info, "FieldInfo")
        THEN [exc |-> "InvalidFieldError", obj |-> self]
        ELSE [exc |-> "none", obj |-> Field_init(self, field_info)]

PydanticField_name(self) == self._name

PydanticField_type_obj(self) == field_infos[self.field.ref].annotation

PydanticField_is_many(self) == is_many(PydanticField_type_obj(self))

\* is_nullable that also takes a default of None for nullability.
PydanticField_is_nullable_by_default(self) ==
    \/ is_nullable(PydanticField_type_obj(self))
    \/ field_infos[self.field.ref].default = NoneV

PydanticField_is_nullable(self) == is_nullable(PydanticField_type_obj(self))

\* Field.type_name of erdantic.base: the display string of type_obj.
Field_type_name(self) == repr_type(PydanticField_type_obj(self))

(***************************************************************************)
(* PydanticModel                                                           *)
(***************************************************************************)
\* Model.__init__ of erdantic.base: stores the native class under `model`.
Model_init(self, model) == [cls |-> self.cls, model |-> model]

\* is_model_type without the isinstance(obj, type) guard.
is_model_type_unguarded(obj) == issubclass(obj, BaseModel)

\* `isinstance(obj, type) and issubclass(obj, pydantic.BaseModel)`: the
\* second operand is evaluated only when the first is true.
is_model_type(obj) ==
    IF ~isinstance(obj, "type")
    THEN [exc |-> "none", value |-> FALSE]
    ELSE issubclass(obj, BaseModel)

\* PydanticModel.__init__ without the is_model_type check.
PydanticModel_init_unchecked(model) ==
    [exc |-> "none", obj |-> Model_init([cls |-> "PydanticModel"], model)]

PydanticModel_init(model) ==
    LET self == [cls |-> "PydanticModel"]
        ok == is_model_type(model)
    IN  IF ok.exc # "none" THEN [exc |-> ok.exc, obj |-> self]
        ELSE IF ~ok.value THEN [exc |-> "InvalidModelError", obj |-> self]
        ELSE [exc |-> "none", obj |-> Model_init(self, model)]

\* self.model.model_fields.items(): the (name, FieldInfo) pairs in the
\* dict's insertion order, which is the declaration order.
model_fields_items(self) == classes[self.model.ref].model_fields

\* `fields` that enumerates the items in reverse.
PydanticModel_fields_reversed(self) ==
    LET items == model_fields_items(self)
        n == Len(items)
    IN  [exc |-> "none",
         value |-> [i \in 1..n |->
                      PydanticField_init(items[n + 1 - i][1], items[n + 1 - i][2]).obj]]

\* The list comprehension of `fields`: one PydanticField per item; an
\* exception of a constructor propagates.
PydanticModel_fields(self) ==
    LET items == model_fields_items(self)
        made == [i \in DOMAIN items |-> PydanticField_init(items[i][1], items[i][2])]
    IN  IF \E i \in DOMAIN made : made[i].exc # "none"
        THEN [exc |-> made[CHOOSE i \in DOMAIN made : made[i].exc # "none"].exc,
              value |-> <<>>]
        ELSE [exc |-> "none", value |-> [i \in DOMAIN made |-> made[i].obj]]

\* Model.docstring of erdantic.base: the model class's own docstring.
Model_docstring(self) == classes[self.model.ref].doc

S_Attributes == <<"\n", "A", "t", "t", "r", "i", "b", "u", "t", "e", "s", ":", "\n">>
S_Indent == <<" ", " ", " ", " ">>
S_DefaultIs == <<"D", "e", "f", "a", "u", "l", "t", " ", "i", "s", " ">>

\* DocLine with the period appended whether or not there is a default.
DocLine_period_always(field, descr, default) ==
    LET line == PydanticField_name(field) \o <<" ", "(">> \o Field_type_name(field)
                  \o <<")", ":", " ">> \o descr.text
        ended == IF ~endswith(strip(line), <<".">>)
                 THEN rstrip(line) \o <<".">>
                 ELSE rstrip(line)
    IN  IF ~isinstance(default, "PydanticUndefinedType") /\ default # EllipsisV
        THEN IF isinstance(default, "str")
             THEN ended \o <<" ">> \o S_DefaultIs \o <<"'">> \o default.text \o <<"'", ".">>
             ELSE ended \o <<" ">> \o S_DefaultIs \o default.text \o <<".">>
        ELSE ended

\* DocLine that appends ". " without looking at how the line ends.
DocLine_period_unchecked(field, descr, default) ==
    LET line == PydanticField_name(field) \o <<" ", "(">> \o Field_type_name(field)
                  \o <<")", ":", " ">> \o descr.text
    IN  IF ~isinstance(default, "PydanticUndefinedType") /\ default # EllipsisV
        THEN LET joined == rstrip(line) \o <<".", " ">>
             IN  IF isinstance(default, "str")
                 THEN joined \o S_DefaultIs \o <<"'">> \o default.text \o <<"'", ".">>
                 ELSE joined \o S_DefaultIs \o default.text \o <<".">>
        ELSE line

\* DocLine without the `default is not ...` test.
DocLine_ellipsis_is_default(field, descr, default) ==
    LET line == PydanticField_name(field) \o <<" ", "(">> \o Field_type_name(field)
                  \o <<")", ":", " ">> \o descr.text
    IN  IF ~isinstance(default, "PydanticUndefinedType")
        THEN LET joined == IF ~endswith(strip(line), <<".">>)
                           THEN rstrip(line) \o <<".", " ">>
                           ELSE rstrip(line) \o <<" ">>
             IN  IF isinstance(default, "str")
                 THEN joined \o S_DefaultIs \o <<"'">> \o default.text \o <<"'", ".">>
                 ELSE joined \o S_DefaultIs \o default.text \o <<".">>
        ELSE line

\* Lines 90-102: the line of one described field, before the final strip.
DocLine(field, descr, default) ==
    LET line == PydanticField_name(field) \o <<" ", "(">> \o Field_type_name(field)
                  \o <<")", ":", " ">> \o descr.text
    IN  IF ~isinstance(default, "PydanticUndefinedType") /\ default # EllipsisV
        THEN LET joined == IF ~endswith(strip(line), <<".">>)
                           THEN rstrip(line) \o <<".", " ">>
                           ELSE rstrip(line) \o <<" ">>
             IN  IF isinstance(default, "str")
                 THEN joined \o S_DefaultIs \o <<"'">> \o default.text \o <<"'", ".">>
                 ELSE joined \o S_DefaultIs \o default.text \o <<".">>
        ELSE line

\* Lines 88-103: the loop over zip(self.fields, field_descriptions,
\* field_defaults), from its i-th triple on.
RECURSIVE DocLoop(_, _, _, _, _)
DocLoop(out, fields, descriptions, defaults, i) ==
    IF i > Len(fields) \/ i > Len(descriptions) \/ i > Len(defaults) THEN out
    ELSE IF descriptions[i] # NoneV
         THEN DocLoop(out \o S_Indent
                          \o strip(DocLine(fields[i], descriptions[i], defaults[i]))
                          \o <<"\n">>,
                      fields, descriptions, defaults, i + 1)
         ELSE DocLoop(out, fields, descriptions, defaults, i + 1)

PydanticModel_docstring(self) ==
    LET out == Model_docstring(self)
        fields82 == PydanticModel_fields(self)
        fields87 == PydanticModel_fields(self)
        fields88 == PydanticModel_fields(self)
        field_descriptions ==
            [i \in DOMAIN fields82.value |->
                field_infos[fields82.value[i].field.ref].description]
        field_defaults ==
            [i \in DOMAIN fields87.value |->
                field_infos[fields87.value[i].field.ref].default]
    IN  IF fields82.exc # "none" THEN [exc |-> fields82.exc, value |-> <<>>]
        ELSE IF \E i \in DOMAIN field_descriptions : field_descriptions[i] # NoneV
        THEN [exc |-> "none",
              value |-> DocLoop(out \o S_Attributes, fields88.value,
                                field_descriptions, field_defaults, 1)]
        ELSE [exc |-> "none", value |-> out]

(***************************************************************************)
(* The calls a client makes.  result records the call and what it returned *)
(* or raised; a constructor that raises binds no instance.                 *)
(***************************************************************************)
Call(op, self, arg, exc, value) ==
    [op |-> op, self |-> self, arg |-> arg, exc |-> exc, value |-> value]

FieldNameInputs == { <<>>, <<"a">> }

FieldInputs ==
    { Obj("FieldInfo", r) : r \in DOMAIN field_infos }
        \cup { Obj("class", "M"), Obj("NoneType", "None") }

ConstructModel(model) ==
    LET r == PydanticModel_init(model)
    IN  /\ IF r.exc = "none"
           THEN /\ heap' = Append(heap, r.obj)
                /\ result' = Call("PydanticModel", Len(heap) + 1, model, "none", 0)
           ELSE /\ heap' = heap
                /\ result' = Call("PydanticModel", 0, model, r.exc, 0)
        /\ UNCHANGED <<classes, field_infos>>

ConstructField(name, field_info) ==
    LET r == PydanticField_init(name, field_info)
    IN  /\ IF r.exc = "none"
           THEN /\ heap' = Append(heap, r.obj)
                /\ result' = Call("PydanticField", Len(heap) + 1,
                                  <<name, field_info>>, "none", 0)
           ELSE /\ heap' = heap
                /\ result' = Call("PydanticField", 0, <<name, field_info>>, r.exc, 0)
        /\ UNCHANGED <<classes, field_infos>>

IsModelType(obj) ==
    LET r == is_model_type(obj)
    IN  /\ result' = Call("is_model_type", 0, obj, r.exc, r.value)
        /\ UNCHANGED <<classes, field_infos, heap>>

Name(self) ==
    /\ heap[self].cls = "PydanticField"
    /\ result' = Call("name", self, 0, "none", PydanticField_name(heap[self]))
    /\ UNCHANGED <<classes, field_infos, heap>>

TypeObj(self) ==
    /\ heap[self].cls = "PydanticField"
    /\ result' = Call("type_obj", self, 0, "none", PydanticField_type_obj(heap[self]))
    /\ UNCHANGED <<classes, field_infos, heap>>

IsMany(self) ==
    /\ heap[self].cls = "PydanticField"
    /\ result' = Call("is_many", self, 0, "none", PydanticField_is_many(heap[self]))
    /\ UNCHANGED <<classes, field_infos, heap>>

IsNullable(self) ==
    /\ heap[self].cls = "PydanticField"
    /\ result' = Call("is_nullable", self, 0, "none",
                      PydanticField_is_nullable(heap[self]))
    /\ UNCHANGED <<classes, field_infos, heap>>

\* `fields` that caches: it hands out again the instances it built before.
Fields_cached(self) ==
    LET r == PydanticModel_fields(heap[self])
        cached == [i \in DOMAIN r.value |->
                     IF \E j \in DOMAIN heap : heap[j] = r.value[i]
                     THEN CHOOSE j \in DOMAIN heap : heap[j] = r.value[i]
                     ELSE 0]
    IN  /\ heap[self].cls = "PydanticModel"
        /\ IF r.value # <<>> /\ \A i \in DOMAIN cached : cached[i] # 0
           THEN /\ heap' = heap
                /\ result' = Call("fields", self, 0, r.exc, cached)
           ELSE /\ heap' = heap \o r.value
                /\ result' = Call("fields", self, 0, r.exc,
                                  [i \in DOMAIN r.value |-> Len(heap) + i])
        /\ UNCHANGED <<classes, field_infos>>

\* The `fields` property: the instances of the returned list are new ones.
Fields(self) ==
    LET r == PydanticModel_fields(heap[self])
    IN  /\ heap[self].cls = "PydanticModel"
        /\ heap' = heap \o r.value
        /\ result' = Call("fields", self, 0, r.exc,
                          [i \in DOMAIN r.value |-> Len(heap) + i])
        /\ UNCHANGED <<classes, field_infos>>

\* The `docstring` property; the adapters its three `self.fields` reads
\* build are dropped when it returns.
Docstring(self) ==
    LET r == PydanticModel_docstring(heap[self])
    IN  /\ heap[self].cls = "PydanticModel"
        /\ result' = Call("docstring", self, 0, r.exc, r.value)
        /\ UNCHANGED <<classes, field_infos, heap>>

\* At most n adapter instances exist after the step.
Bounded(n) == Len(heap') <= n

Next ==
    \/ \E model \in ModelInputs : ConstructModel(model) /\ Bounded(MaxAdapters)
    \/ \E obj \in ModelInputs : IsModelType(obj)
    \/ \E name \in FieldNameInputs, field_info \in FieldInputs :
          ConstructField(name, field_info) /\ Bounded(MaxAdapters)
    \/ \E self \in DOMAIN heap : Name(self)
    \/ \E self \in DOMAIN heap : TypeObj(self)
    \/ \E self \in DOMAIN heap : IsMany(self)
    \/ \E self \in DOMAIN heap : IsNullable(self)
    \/ \E self \in DOMAIN heap : Fields(self) /\ Bounded(MaxAdapters)
    \/ \E self \in DOMAIN heap : Docstring(self)

Spec == Init /\ [][Next]_vars

\* A client that adapts the model classes and reads the accessors of the
\* adapters and of the field adapters `fields` hands out, again and again.
NextAccess ==
    \/ \E model \in {BaseModel, Obj("class", "M")} :
          ConstructModel(model) /\ Bounded(MaxInstances)
    \/ \E self \in DOMAIN heap : Name(self)
    \/ \E self \in DOMAIN heap : TypeObj(self)
    \/ \E self \in DOMAIN heap : IsMany(self)
    \/ \E self \in DOMAIN heap : IsNullable(self)
    \/ \E self \in DOMAIN heap : Fields(self) /\ Bounded(MaxInstances)
    \/ \E self \in DOMAIN heap : Docstring(self)

SpecAccess == Init /\ [][NextAccess]_vars

\* The docstring of one adapter of the drawn model class M.
NextDoc ==
    \/ heap = <<>> /\ ConstructModel(Obj("class", "M"))
    \/ \E self \in DOMAIN heap : Docstring(self)

SpecDoc == InitDoc /\ [][NextDoc]_vars

(***************************************************************************)
(* Properties of the constructors and of is_model_type.                    *)
(***************************************************************************)
IsClass(obj) == obj.kind = "class"

DerivesFromBaseModel(obj) ==
    /\ IsClass(obj)
    /\ \E i \in DOMAIN Mro[obj.ref] : Mro[obj.ref][i] = "BaseModel"

\* Every adapter that existed still exists, with the attributes it had.
HeapKept ==
    /\ Len(heap') >= Len(heap)
    /\ \A i \in DOMAIN heap : heap'[i] = heap[i]

C1_ModelConstructed ==
    result.op = "PydanticModel" =>
        /\ result.exc = "none" <=> is_model_type(result.arg) = [exc |-> "none", value |-> TRUE]
        /\ result.exc = "none" =>
              /\ result.self = Len(heap)
              /\ heap[result.self] = [cls |-> "PydanticModel", model |-> result.arg]
        /\ result.exc # "none" => result.exc = "InvalidModelError" /\ result.self = 0

C1_ModelAdaptersValid ==
    \A i \in DOMAIN heap :
        heap[i].cls = "PydanticModel" =>
            /\ DOMAIN heap[i] = {"cls", "model"}
            /\ is_model_type(heap[i].model) = [exc |-> "none", value |-> TRUE]

C1_FailureBuildsNothing ==
    (result'.op = "PydanticModel" /\ result'.exc # "none") => heap' = heap

\* C1: PydanticModel(m) succeeds, and the new adapter wraps exactly m, if
\* and only if is_model_type(m) is true; for every other input it fails
\* with InvalidModelError, and no adapter, whole or partial, comes to exist.
C1_ModelConstruction ==
    /\ [](C1_ModelConstructed /\ C1_ModelAdaptersValid)
    /\ [][C1_FailureBuildsNothing /\ HeapKept]_vars

C1_Witness ==
    /\ result.op = "PydanticModel"
    /\ result.exc = "InvalidModelError"
    /\ result.arg = Obj("class", "Lookalike")
    /\ \E i \in DOMAIN heap : heap[i] = [cls |-> "PydanticModel", model |-> Obj("class", "Child")]

\* C2: is_model_type is total: it returns a boolean and never raises, true
\* exactly for a class that derives from the base model type, false for
\* every value that is no class and every class that does not derive from it.
C2_IsModelTypeTotal ==
    result.op = "is_model_type" =>
        /\ result.exc = "none"
        /\ result.value \in BOOLEAN
        /\ result.value <=> DerivesFromBaseModel(result.arg)
        /\ ~IsClass(result.arg) => result.value = FALSE

C2_Witness ==
    /\ result.op = "is_model_type"
    /\ ~IsClass(result.arg)
    /\ result.exc = "none"
    /\ result.value = FALSE

C3_FieldConstructed ==
    result.op = "PydanticField" =>
        /\ result.exc = "none" <=> result.arg[2].kind = "FieldInfo"
        /\ result.exc = "none" =>
              /\ result.self = Len(heap)
              /\ heap[result.self].cls = "PydanticField"
              /\ heap[result.self].field = result.arg[2]
              /\ PydanticField_name(heap[result.self]) = result.arg[1]
        /\ result.exc # "none" => result.exc = "InvalidFieldError" /\ result.self = 0

C3_FieldAdaptersValid ==
    \A i \in DOMAIN heap :
        heap[i].cls = "PydanticField" =>
            /\ DOMAIN heap[i] = {"cls", "_name", "field"}
            /\ heap[i].field.kind = "FieldInfo"

C3_NameAccessor ==
    result.op = "name" => result.value = heap[result.self]._name

C3_FailureBuildsNothing ==
    (result'.op = "PydanticField" /\ result'.exc # "none") => heap' = heap

\* C3: PydanticField(name, x) fails with InvalidFieldError, building no
\* adapter, for every x that is no FieldInfo; for a FieldInfo d it succeeds,
\* the adapter wraps d, and its name accessor returns the supplied name
\* unchanged, whatever the name.
C3_FieldConstruction ==
    /\ [](C3_FieldConstructed /\ C3_FieldAdaptersValid /\ C3_NameAccessor)
    /\ [][C3_FailureBuildsNothing /\ HeapKept]_vars

C3_Witness ==
    /\ result.op = "PydanticField"
    /\ result.exc = "InvalidFieldError"
    /\ result.arg[2] = Obj("class", "M")
    /\ \E i \in DOMAIN heap :
          heap[i] = [cls |-> "PydanticField", _name |-> <<>>, field |-> Obj("FieldInfo", "fb")]

\* The fields the adapter's model class declares, in declaration order.
Declared(self) == classes[heap[self].model.ref].model_fields

\* C4: fields returns exactly one PydanticField per declared field, in
\* declaration order: the i-th carries the i-th declared name and wraps the
\* i-th declared field's FieldInfo.
C4_FieldsInDeclarationOrder ==
    result.op = "fields" =>
        /\ result.exc = "none"
        /\ Len(result.value) = Len(Declared(result.self))
        /\ \A i \in DOMAIN result.value :
              /\ heap[result.value[i]].cls = "PydanticField"
              /\ heap[result.value[i]]._name = Declared(result.self)[i][1]
              /\ heap[result.value[i]].field = Declared(result.self)[i][2]

C4_Witness ==
    /\ result.op = "fields"
    /\ Len(result.value) = 2
    /\ heap[result.value[1]]._name = <<"b">>
    /\ heap[result.value[2]]._name = <<"a">>

(***************************************************************************)
(* Properties of the accessors.                                            *)
(***************************************************************************)
Accessors == {"name", "type_obj", "is_many", "is_nullable", "fields", "docstring"}

\* The two results are equal: for `fields`, lists of adapters with the same
\* names wrapping the same descriptors in the same order.
SameResult ==
    /\ result'.exc = result.exc
    /\ IF result.op = "fields"
       THEN /\ Len(result'.value) = Len(result.value)
            /\ \A i \in DOMAIN result.value :
                  heap'[result'.value[i]] = heap[result.value[i]]
       ELSE result'.value = result.value

C8_Step ==
    /\ classes' = classes
    /\ field_infos' = field_infos
    /\ HeapKept
    /\ result'.op \in Accessors \ {"fields"} => heap' = heap
    /\ (result'.op \in Accessors /\ result'.op = result.op /\ result'.self = result.self)
          => SameResult
    /\ result'.op = "fields" =>
          /\ Len(heap') = Len(heap) + Len(result'.value)
          /\ \A i \in DOMAIN result'.value :
                /\ result'.value[i] \notin DOMAIN heap
                /\ \A j \in DOMAIN result'.value : i # j => result'.value[i] # result'.value[j]

\* C8: every accessor is a pure read: no call changes the model classes,
\* the field metadata or an existing adapter's stored name and descriptor,
\* and an accessor called again returns an equal result.  fields is not
\* cached: every access returns instances that did not exist before,
\* equal in names, descriptors and order to those of the access before.
C8_AccessorsPure == [][C8_Step]_vars

C8_Witness ==
    /\ result.op = "fields"
    /\ result.self = 1
    /\ result.value = <<4, 5>>
    /\ heap[2].cls = "PydanticField"
    /\ heap[4] = heap[2]
    /\ heap[5] = heap[3]

\* C9: type_obj is the wrapped FieldInfo's annotation, and is_many and
\* is_nullable return what the Type Classifier returns for that annotation;
\* the default and the description have no influence.
C9_DelegatesToClassifier ==
    LET annotation == field_infos[heap[result.self].field.ref].annotation
    IN  /\ result.op = "type_obj" => result.value = annotation
        /\ result.op = "is_many" => result.value = is_many(annotation)
        /\ result.op = "is_nullable" => result.value = is_nullable(annotation)

C9_Witness ==
    /\ result.op = "is_nullable"
    /\ field_infos[heap[result.self].field.ref].default = NoneV
    /\ result.value = FALSE

(***************************************************************************)
(* Properties of the docstring.  They read the text `docstring` returned:  *)
(* the lines of its Attributes block, and the line of each field.          *)
(***************************************************************************)
StartsWith(s, prefix) ==
    /\ Len(s) >= Len(prefix)
    /\ SubSeq(s, 1, Len(prefix)) = prefix

Contains(s, sub) ==
    \E i \in 1..(Len(s) - Len(sub) + 1) : SubSeq(s, i, i + Len(sub) - 1) = sub

\* The lines of a text from position start on, each ended by a newline (or
\* by the end of the text).
RECURSIVE SplitLines(_, _)
SplitLines(s, start) ==
    IF start > Len(s) THEN <<>>
    ELSE LET end == CHOOSE j \in start..(Len(s) + 1) :
                        /\ j = Len(s) + 1 \/ s[j] = "\n"
                        /\ \A m \in start..(j - 1) : s[m] # "\n"
         IN  <<SubSeq(s, start, end - 1)>> \o SplitLines(s, end + 1)

DocReturned == result.op = "docstring" /\ result.exc = "none"

BaseDoc == classes[heap[result.self].model.ref].doc

HasBlock == StartsWith(result.value, BaseDoc \o S_Attributes)

\* The lines after the "Attributes:" header.
BlockLines ==
    IF HasBlock
    THEN SplitLines(result.value, Len(BaseDoc) + Len(S_Attributes) + 1)
    ELSE <<>>

DeclaredInfo(i) == field_infos[Declared(result.self)[i][2].ref]

DeclaredName(i) == Declared(result.self)[i][1]

\* "name (type): " of the i-th declared field.
LinePrefix(i) ==
    DeclaredName(i) \o <<" ", "(">> \o repr_type(DeclaredInfo(i).annotation)
        \o <<")", ":", " ">>

\* The block lines that are the i-th declared field's.
LinesOf(lines, i) ==
    { k \in DOMAIN lines :
        StartsWith(lines[k], S_Indent \o DeclaredName(i) \o <<" ", "(">>) }

\* Of the block's lines, exactly one is the i-th declared field's, and it
\* is `line`.
LineIs(lines, i, line) ==
    /\ Cardinality(LinesOf(lines, i)) = 1
    /\ \A k \in LinesOf(lines, i) : lines[k] = S_Indent \o line

HasDescription(i) == DeclaredInfo(i).description.kind = "str"

HasNonEmptyDescription(i) ==
    HasDescription(i) /\ DeclaredInfo(i).description.text # <<>>

EndsInPeriod(text) == text # <<>> /\ text[Len(text)] = "."

NoDefault(i) == DeclaredInfo(i).default = PydanticUndefined

ConcreteDefault(i) == DeclaredInfo(i).default.kind \notin {"PydanticUndefinedType", "ellipsis"}

\* <value> of `Default is <value>.`: a str in single quotes, else str(value).
Rendered(default) ==
    IF default.kind = "str" THEN <<"'">> \o default.text \o <<"'">> ELSE default.text

\* The declared fields i..n that have a non-empty description, in
\* declaration order.
RECURSIVE Described(_, _)
Described(i, n) ==
    IF i > n THEN <<>>
    ELSE (IF HasNonEmptyDescription(i) THEN <<i>> ELSE <<>>) \o Described(i + 1, n)

\* C5: the "Attributes:" block is appended if and only if some field has a
\* non-empty description; it then holds exactly one line per field with
\* such a description, in declaration order, and no line for a field with
\* no description or an empty one; with no described field the docstring
\* is the base docstring unchanged.
C5_BlockIffNonEmptyDescription ==
    DocReturned =>
        LET described == Described(1, Len(Declared(result.self)))
            lines == BlockLines
        IN  IF described = <<>>
            THEN result.value = BaseDoc
            ELSE /\ HasBlock
                 /\ Len(lines) = Len(described)
                 /\ \A k \in DOMAIN described :
                       StartsWith(lines[k],
                                  S_Indent \o DeclaredName(described[k]) \o <<" ", "(">>)

\* C6 as stated: a description that does not end in a period, on a field
\* with no declared default, gives the line `name (type): description.`,
\* a period appended.
C6_PeriodAppendedWithoutDefault ==
    DocReturned =>
        LET lines == BlockLines IN
        \A i \in DOMAIN Declared(result.self) :
            (/\ HasNonEmptyDescription(i)
             /\ ~EndsInPeriod(rstrip(DeclaredInfo(i).description.text))
             /\ NoDefault(i))
                => LineIs(lines, i, LinePrefix(i) \o DeclaredInfo(i).description.text \o <<".">>)

\* C6 amended: a description that does not end in a period, on a field with
\* no declared default, gives the line `name (type): description`: the
\* description as written, less trailing whitespace, and no period appended.
C6_DescriptionAsWrittenWithoutDefault ==
    DocReturned =>
        LET lines == BlockLines IN
        \A i \in DOMAIN Declared(result.self) :
            (/\ HasDescription(i)
             /\ ~EndsInPeriod(rstrip(DeclaredInfo(i).description.text))
             /\ NoDefault(i))
                => /\ LineIs(lines, i, rstrip(LinePrefix(i) \o DeclaredInfo(i).description.text))
                   /\ \A k \in LinesOf(lines, i) : ~EndsInPeriod(lines[k])

C6_Witness ==
    /\ DocReturned
    /\ Len(Declared(result.self)) = 2
    /\ DeclaredInfo(2).description = StrV(<<"a">>)
    /\ NoDefault(2)
    /\ LineIs(BlockLines, 2, LinePrefix(2) \o <<"a">>)

\* C7: a described field with a concrete default (0 and '' included) gives
\* the description, ended by exactly one period (appended only when the
\* description does not end in one), one space, and `Default is <value>.`,
\* a str default in single quotes and any other default unquoted; the
\* join adds no second period and no second space.
C7_DefaultClause ==
    DocReturned =>
        LET lines == BlockLines IN
        \A i \in DOMAIN Declared(result.self) :
            (HasDescription(i) /\ ConcreteDefault(i)) =>
                LET written == rstrip(LinePrefix(i) \o DeclaredInfo(i).description.text)
                    clause == S_DefaultIs \o Rendered(DeclaredInfo(i).default) \o <<".">>
                    sentence == IF EndsInPeriod(written) THEN written
                                ELSE written \o <<".">>
                IN  /\ LineIs(lines, i, sentence \o <<" ">> \o clause)
                    /\ \A k \in LinesOf(lines, i) :
                          LET line == lines[k]
                              head == SubSeq(line, 1, Len(line) - Len(clause))
                          IN  /\ endswith(head, <<".", " ">>)
                              /\ ~endswith(head, <<" ", " ">>)
                              /\ endswith(head, <<".", ".", " ">>)
                                    => endswith(written, <<".", ".">>)

C7_Witness ==
    /\ DocReturned
    /\ Len(Declared(result.self)) = 2
    /\ DeclaredInfo(1).description = StrV(<<"a", ".">>)
    /\ DeclaredInfo(1).default = IntV(<<"0">>)
    /\ DeclaredInfo(2).description = StrV(<<"a", " ">>)
    /\ DeclaredInfo(2).default = StrV(<<>>)

\* C10: a described field's line has the default clause if and only if the
\* stored default is neither PydanticUndefined nor Ellipsis: a default of
\* None gives `Default is None.`; with no default, or Ellipsis, the line
\* has no default clause and the description is left as written.
C10_ClauseIffConcreteDefault ==
    DocReturned =>
        LET lines == BlockLines IN
        \A i \in DOMAIN Declared(result.self) :
            HasDescription(i) =>
                /\ Cardinality(LinesOf(lines, i)) = 1
                /\ \A k \in LinesOf(lines, i) :
                      /\ Contains(lines[k], S_DefaultIs) <=> ConcreteDefault(i)
                      /\ DeclaredInfo(i).default = NoneV =>
                            endswith(lines[k],
                                     <<" ">> \o S_DefaultIs \o <<"N", "o", "n", "e", ".">>)
                      /\ DeclaredInfo(i).default \in {PydanticUndefined, EllipsisV} =>
                            lines[k] = S_Indent
                                \o rstrip(LinePrefix(i) \o DeclaredInfo(i).description.text)

C10_Witness ==
    /\ DocReturned
    /\ Len(Declared(result.self)) = 2
    /\ HasDescription(1) /\ DeclaredInfo(1).default = NoneV
    /\ HasDescription(2) /\ DeclaredInfo(2).default = EllipsisV

====
